---- MODULE Spec2Model ----
(***************************************************************************)
(* A model of rvn_util: script/transaction encoding (op_data.rs,           *)
(* script.rs), the Merkle root (merkle.rs), compact-bits / target /        *)
(* difficulty conversion (diff.rs), nonce packing (job.rs) and the block   *)
(* template with its freshness predicate (block_template.rs).              *)
(*                                                                         *)
(* Representation.                                                         *)
(*  - A fixed-width unsigned integer is a little-endian sequence of 16-bit *)
(*    limbs: u32 = 2 limbs, u64 = 4 limbs, Uint256 = 16 limbs.  Every      *)
(*    intermediate value stays below 2^31.                                 *)
(*  - A byte string is a sequence of chunks <<kind, payload>>:             *)
(*      <<"b", n>>     one byte n in 0..255                                *)
(*      <<"h", term>>  the 32 bytes of a hash, kept symbolic               *)
(*      <<"blob", <<id, len>>>>  len (a u64) opaque bytes                  *)
(*  - A text (Rust String / &str) is a sequence of chunks:                 *)
(*      <<"c", "a">>   one character                                       *)
(*      <<"x", chunk>> the hex digits of a symbolic byte chunk             *)
(*  - A fallible result is a record [tag |-> "ok" | "err" | "panic", ...]. *)
(***************************************************************************)
EXTENDS Integers, Sequences, FiniteSets, TLC

\* ------------------------------------------------------------------------
\* Fixed-width integers as 16-bit limbs
\* ------------------------------------------------------------------------

\* 2^16, the limb base
LimbBase == 65536

\* the limbs of a small natural number n (n < 2^31), w limbs wide
RECURSIVE ToLimbs(_, _)
ToLimbs(n, w) ==
    IF w = 0 THEN <<>> ELSE <<n % LimbBase>> \o ToLimbs(n \div LimbBase, w - 1)

U32(n) == ToLimbs(n, 2)
U64(n) == ToLimbs(n, 4)

\* a limb sequence is zero
LimbsZero(a) == \A i \in DOMAIN a : a[i] = 0

\* a < b for limb sequences of equal width (most significant limb decides)
LimbsLess(a, b) ==
    \E i \in DOMAIN a :
        a[i] < b[i] /\ \A j \in DOMAIN a : j > i => a[j] = b[j]

\* the borrow out of the limbs below limb i when a - b - borrow is computed
BorrowInto(a, b, borrow, i) ==
    LET lowa == SubSeq(a, 1, i - 1)
        lowb == SubSeq(b, 1, i - 1)
    IN  IF LimbsLess(lowa, lowb) \/ (borrow = 1 /\ lowa = lowb) THEN 1 ELSE 0

\* a - b - borrow modulo 2^(16*width)
LimbsSub(a, b, borrow) ==
    [i \in 1..Len(a) |-> (a[i] - b[i] - BorrowInto(a, b, borrow, i)) % LimbBase]
        \o <<>>

\* the carry out of the limbs below limb i when a + b + carry is computed
CarryInto(a, b, carry, i) ==
    LET lowb == SubSeq(b, 1, i - 1)
        room == [j \in 1..(i - 1) |-> LimbBase - 1 - a[j]] \o <<>>
    IN  IF LimbsLess(room, lowb) \/ (carry = 1 /\ room = lowb) THEN 1 ELSE 0

\* a + b + carry modulo 2^(16*width)
LimbsAdd(a, b, carry) ==
    [i \in 1..Len(a) |-> (a[i] + b[i] + CarryInto(a, b, carry, i)) % LimbBase]
        \o <<>>

\* (2*a + bit) modulo 2^(16*width)
LimbsShl1(a, bit) ==
    [i \in 1..Len(a) |->
        (2 * a[i] + (IF i = 1 THEN bit ELSE a[i - 1] \div 32768)) % LimbBase]
        \o <<>>

\* bit i (0 = least significant) of a limb sequence
Pow2(k) == CASE k = 0 -> 1 [] k = 1 -> 2 [] k = 2 -> 4 [] k = 3 -> 8
             [] k = 4 -> 16 [] k = 5 -> 32 [] k = 6 -> 64 [] k = 7 -> 128
             [] k = 8 -> 256 [] k = 9 -> 512 [] k = 10 -> 1024 [] k = 11 -> 2048
             [] k = 12 -> 4096 [] k = 13 -> 8192 [] k = 14 -> 16384
             [] k = 15 -> 32768 [] k = 16 -> 65536
LimbsBit(a, i) == (a[(i \div 16) + 1] \div Pow2(i % 16)) % 2

\* widen / truncate a limb sequence to w limbs
LimbsResize(a, w) == [i \in 1..w |-> IF i <= Len(a) THEN a[i] ELSE 0] \o <<>>

\* ------------------------------------------------------------------------
\* Byte strings
\* ------------------------------------------------------------------------

B(n) == <<"b", n>>
Bytes(s) == [i \in DOMAIN s |-> B(s[i])]
Zeros(n) == [i \in 1..n |-> B(0)]
Fill(n, v) == [i \in 1..n |-> B(v)]
HashChunk(term) == <<"h", term>>
Blob(id, len) == <<"blob", <<id, len>>>>

\* the number of bytes a chunk stands for, as a u64
ChunkLen(c) ==
    CASE c[1] = "b" -> U64(1)
      [] c[1] = "h" -> U64(32)
      [] c[1] = "blob" -> c[2][2]

\* data.len() as u64
RECURSIVE ByteLen(_)
ByteLen(s) ==
    IF s = <<>> THEN U64(0)
    ELSE IF Len(s) = 1 THEN ChunkLen(s[1])
    ELSE LET h == Len(s) \div 2 IN
         LimbsAdd(ByteLen(SubSeq(s, 1, h)), ByteLen(SubSeq(s, h + 1, Len(s))), 0)

\* slice.reverse(): the order of the chunks and of the bytes of each chunk
RevChunk(c) == IF c[1] = "b" THEN c ELSE <<c[1], <<"rev", c[2]>>>>
Reverse(s) == [i \in DOMAIN s |-> RevChunk(s[Len(s) + 1 - i])]

\* the little-endian bytes of a limb sequence
RECURSIVE LEBytes(_)
LEBytes(a) ==
    IF a = <<>> THEN <<>>
    ELSE <<B(Head(a) % 256), B(Head(a) \div 256)>> \o LEBytes(Tail(a))

\* the big-endian bytes of a limb sequence
RECURSIVE BEBytes(_)
BEBytes(a) ==
    IF a = <<>> THEN <<>>
    ELSE BEBytes(Tail(a)) \o <<B(Head(a) \div 256), B(Head(a) % 256)>>

\* big-endian bytes read back as limbs (an even number of plain bytes)
RECURSIVE BERead(_)
BERead(s) ==
    IF s = <<>> THEN <<>>
    ELSE BERead(SubSeq(s, 3, Len(s))) \o <<s[1][2] * 256 + s[2][2]>>

\* a limb sequence divided by 256 (n / 0x100)
LimbsShr8(a) ==
    [i \in DOMAIN a |->
        (a[i] \div 256) + (IF i < Len(a) THEN (a[i + 1] % 256) * 256 ELSE 0)]

\* `n as u8`
LowByte(a) == a[1] % 256

\* ------------------------------------------------------------------------
\* Text and hex (the hex crate as used by the sources)
\* ------------------------------------------------------------------------

Ch(c) == <<"c", c>>
Str(s) == [i \in DOMAIN s |-> Ch(s[i])]

HexLower == <<"0", "1", "2", "3", "4", "5", "6", "7",
              "8", "9", "a", "b", "c", "d", "e", "f">>
HexUpper == <<"0", "1", "2", "3", "4", "5", "6", "7",
              "8", "9", "A", "B", "C", "D", "E", "F">>

IsHexChar(c) == \E i \in 1..16 : HexLower[i] = c \/ HexUpper[i] = c
HexVal(c) == (CHOOSE i \in 1..16 : HexLower[i] = c \/ HexUpper[i] = c) - 1

\* hex::encode: two lowercase digits per byte, most significant nibble first
HexOfChunk(c) ==
    IF c[1] = "b"
    THEN <<Ch(HexLower[(c[2] \div 16) + 1]), Ch(HexLower[(c[2] % 16) + 1])>>
    ELSE <<<<"x", c>>>>

RECURSIVE HexEncode(_)
HexEncode(s) ==
    IF s = <<>> THEN <<>>
    ELSE IF Len(s) = 1 THEN HexOfChunk(s[1])
    ELSE LET h == Len(s) \div 2 IN
         HexEncode(SubSeq(s, 1, h)) \o HexEncode(SubSeq(s, h + 1, Len(s)))

\* the number of characters of a text, modulo 2 (symbolic parts are even)
TextParity(t) == Cardinality({i \in DOMAIN t : t[i][1] = "c"}) % 2

Ok(v) == [tag |-> "ok", val |-> v]
Err(e) == [tag |-> "err", err |-> e]
Panic(m) == [tag |-> "panic", msg |-> m]

\* the digit pairs of an even-length text with symbolic parts
RECURSIVE HexPairs(_)
HexPairs(t) ==
    IF t = <<>> THEN Ok(<<>>)
    ELSE IF Head(t)[1] = "x"
    THEN LET r == HexPairs(Tail(t)) IN
         IF r.tag = "ok" THEN Ok(<<Head(t)[2]>> \o r.val) ELSE r
    ELSE IF ~(Head(t)[1] = "c" /\ IsHexChar(Head(t)[2])
              /\ Len(t) >= 2 /\ t[2][1] = "c" /\ IsHexChar(t[2][2]))
    THEN Err("InvalidHexCharacter")
    ELSE LET r == HexPairs(SubSeq(t, 3, Len(t))) IN
         IF r.tag = "ok"
         THEN Ok(<<B(HexVal(t[1][2]) * 16 + HexVal(t[2][2]))>> \o r.val)
         ELSE r

\* hex::decode: Err on an odd length or on a character that is no hex digit
HexDecode(t) ==
    IF TextParity(t) = 1 THEN Err("OddLength")
    ELSE IF \E i \in DOMAIN t : t[i][1] # "c" THEN HexPairs(t)
    ELSE IF \E i \in DOMAIN t : ~IsHexChar(t[i][2]) THEN Err("InvalidHexCharacter")
    ELSE Ok([i \in 1..(Len(t) \div 2) |->
                B(HexVal(t[2 * i - 1][2]) * 16 + HexVal(t[2 * i][2]))])

\* printable ASCII, code 32 first ("<grave>" stands for the character of code 96)
Printable ==
    <<" ", "!", "\"", "#", "$", "%", "&", "'", "(", ")", "*", "+", ",", "-", ".", "/",
      "0", "1", "2", "3", "4", "5", "6", "7", "8", "9", ":", ";", "<", "=", ">", "?",
      "@", "A", "B", "C", "D", "E", "F", "G", "H", "I", "J", "K", "L", "M", "N", "O",
      "P", "Q", "R", "S", "T", "U", "V", "W", "X", "Y", "Z", "[", "\\", "]", "^", "_",
      "<grave>", "a", "b", "c", "d", "e", "f", "g", "h", "i", "j", "k", "l", "m", "n", "o",
      "p", "q", "r", "s", "t", "u", "v", "w", "x", "y", "z", "{", "|", "}", "~">>
Ascii(c) == 31 + (CHOOSE i \in DOMAIN Printable : Printable[i] = c)

\* str::as_bytes; <<"u", chunk>> is the text whose UTF-8 bytes are the chunk
AsBytes(t) ==
    [i \in DOMAIN t |->
        CASE t[i][1] = "c" -> B(Ascii(t[i][2]))
          [] t[i][1] = "u" -> t[i][2]
          [] OTHER -> Blob(<<"ascii", t[i]>>, LimbsShl1(ChunkLen(t[i][2]), 0))]

\* ------------------------------------------------------------------------
\* op_data.rs: OpData (the buffer `inner` is a byte string)
\* ------------------------------------------------------------------------

\* 0x100000000, the first length a script push cannot express
PushLimit == <<0, 0, 1, 0>>

\* a variant of var_push_num that still writes 0xfd as a single byte
var_push_num_LateSwitch(inner, i) ==
    IF ~LimbsLess(U64(253), i)
    THEN inner \o <<B(LowByte(i))>>
    ELSE IF ~LimbsLess(U64(65535), i)
    THEN inner \o <<B(253)>> \o LEBytes(LimbsResize(i, 1))
    ELSE IF ~LimbsLess(<<65535, 65535, 0, 0>>, i)
    THEN inner \o <<B(254)>> \o LEBytes(LimbsResize(i, 2))
    ELSE inner \o <<B(255)>> \o LEBytes(i)

var_push_num(inner, i) ==
    IF LimbsLess(i, U64(253))
    THEN inner \o <<B(LowByte(i))>>
    ELSE IF ~LimbsLess(U64(65535), i)
    THEN inner \o <<B(253)>> \o LEBytes(LimbsResize(i, 1))
    ELSE IF ~LimbsLess(<<65535, 65535, 0, 0>>, i)
    THEN inner \o <<B(254)>> \o LEBytes(LimbsResize(i, 2))
    ELSE inner \o <<B(255)>> \o LEBytes(i)

push_u8(inner, data) == inner \o <<B(data)>>

push_u32(inner, i) == inner \o LEBytes(i)

push_u64(inner, i) == inner \o LEBytes(i)

push_slice(inner, data) == inner \o data

\* a variant of PushOpcode without the size limit: the length of a 4bn+
\* object goes truncated into the four bytes after OP_PUSHDATA4
PushOpcode_Truncating(n) ==
    IF LimbsLess(n, U64(76))
    THEN Ok(<<B(LowByte(n))>>)
    ELSE IF LimbsLess(n, U64(256))
    THEN Ok(<<B(76), B(LowByte(n))>>)
    ELSE IF LimbsLess(n, U64(65536))
    THEN Ok(<<B(77), B(LowByte(n)), B(LowByte(LimbsShr8(n)))>>)
    ELSE Ok(<<B(78), B(LowByte(n)), B(LowByte(LimbsShr8(n))),
              B(LowByte(LimbsShr8(LimbsShr8(n)))),
              B(LowByte(LimbsShr8(LimbsShr8(LimbsShr8(n)))))>>)

\* the PUSH opcode and length bytes, or a panic
PushOpcode(n) ==
    IF LimbsLess(n, U64(76))
    THEN Ok(<<B(LowByte(n))>>)
    ELSE IF LimbsLess(n, U64(256))
    THEN Ok(<<B(76), B(LowByte(n))>>)
    ELSE IF LimbsLess(n, U64(65536))
    THEN Ok(<<B(77), B(LowByte(n)), B(LowByte(LimbsShr8(n)))>>)
    ELSE IF LimbsLess(n, PushLimit)
    THEN Ok(<<B(78), B(LowByte(n)), B(LowByte(LimbsShr8(n))),
              B(LowByte(LimbsShr8(LimbsShr8(n)))),
              B(LowByte(LimbsShr8(LimbsShr8(LimbsShr8(n)))))>>)
    ELSE Panic("tried to put a 4bn+ sized object into a script!")

op_push_slice(inner, data) ==
    LET op == PushOpcode(ByteLen(data)) IN
    IF op.tag = "ok" THEN Ok(inner \o op.val \o data) ELSE op

\* ------------------------------------------------------------------------
\* script.rs: Script
\* ------------------------------------------------------------------------

\* a variant of FirstZero that never finds a zero byte
FirstZero_None(s, k) == Len(s)

\* iter().position(|i| i == &0).unwrap_or(4)
RECURSIVE FirstZero(_, _)
FirstZero(s, k) ==
    IF k > Len(s) THEN Len(s)
    ELSE IF s[k] = B(0) THEN k - 1 ELSE FirstZero(s, k + 1)

coinbase_script(height, arbitrary_data) ==
    LET bip34_height == LEBytes(height)
        bip34_len == FirstZero(bip34_height, 1)
        arbit_data == AsBytes(arbitrary_data)
        r1 == op_push_slice(<<>>, SubSeq(bip34_height, 1, bip34_len))
    IN  IF r1.tag # "ok" THEN r1
        ELSE op_push_slice(push_u8(r1.val, 0), arbit_data)

\* ------------------------------------------------------------------------
\* address.rs: Address
\* ------------------------------------------------------------------------
\* An address string is kept as what base58 decoding finds in it:
\*   [alphabet_ok |-> every character is in the base58 alphabet,
\*    payload     |-> the decoded bytes before the 4 checksum bytes,
\*    checksum_ok |-> the 4 checksum bytes match the payload]

\* bs58::decode(s).with_check(None).into_vec()
Bs58DecodeCheck(s) ==
    IF ~s.alphabet_ok THEN Err("InvalidCharacter")
    ELSE IF ~s.checksum_ok THEN Err("InvalidChecksum")
    ELSE Ok(s.payload)

\* <Address as FromStr>::from_str
from_str(s) ==
    LET d == Bs58DecodeCheck(s) IN
    IF d.tag # "ok" THEN d
    ELSE IF d.val = <<>> THEN Panic("index out of bounds")
    ELSE IF d.val[1] = B(111) THEN Ok([inner |-> s, testnet |-> TRUE])
    ELSE IF d.val[1] = B(60) THEN Ok([inner |-> s, testnet |-> FALSE])
    ELSE Err("Invalid Address")

\* Address::vout_to_miner
vout_to_miner(self) ==
    LET d == Bs58DecodeCheck(self.inner) IN
    IF d.tag # "ok" THEN Panic("called unwrap on an Err value")
    ELSE IF d.val = <<>> THEN Panic("range start index out of range")
    ELSE Ok(Bytes(<<118, 169, 20>>) \o Tail(d.val) \o Bytes(<<136, 172>>))

\* ------------------------------------------------------------------------
\* merkle.rs and dsha256
\* ------------------------------------------------------------------------

\* block_template.rs dsha256: SHA-256 twice; the 32 bytes stay symbolic
dsha256(data) == <<HashChunk(<<"dsha256", data>>)>>

\* the inner `while !txids.is_empty()` loop: two pop_front().unwrap() per turn
RECURSIVE MerklePairs(_, _)
MerklePairs(txids, tmp_txids) ==
    IF txids = <<>> THEN Ok(tmp_txids)
    ELSE LET first == Head(txids)
             rest == Tail(txids)
         IN  IF rest = <<>> THEN Panic("called unwrap on a None value")
             ELSE MerklePairs(Tail(rest),
                              Append(tmp_txids, dsha256(first \o Head(rest))))

\* a variant of MerklePad that leaves an odd level as it is
MerklePad_NoDuplicate(txids) == txids

\* the level handed to the inner loop: the last element pushed again when odd
MerklePad(txids) ==
    IF Len(txids) % 2 = 1 THEN Append(txids, txids[Len(txids)]) ELSE txids

\* the outer `while txids.len() > 1` loop and the final pop_front().unwrap()
RECURSIVE MerkleLevels(_)
MerkleLevels(txids) ==
    IF Len(txids) > 1
    THEN LET next == MerklePairs(MerklePad(txids), <<>>) IN
         IF next.tag = "ok" THEN MerkleLevels(next.val) ELSE next
    ELSE IF txids = <<>> THEN Panic("called unwrap on a None value")
    ELSE Ok(txids[1])

merkel_hash(txids) ==
    IF txids = <<>> THEN Ok(dsha256(<<>>))
    ELSE IF Len(txids) = 1 THEN Ok(txids[1])
    ELSE MerkleLevels(txids)

\* ------------------------------------------------------------------------
\* diff.rs: Uint256 (bitcoin::util::uint) as 16 limbs
\* ------------------------------------------------------------------------

UintLimbs == 16

Uint256Zero == [i \in 1..UintLimbs |-> 0]
Uint256Max == [i \in 1..UintLimbs |-> LimbBase - 1]

\* Uint256::from_u64
from_u64(x) == LimbsResize(x, UintLimbs)

\* Uint256::low_u64
low_u64(x) == LimbsResize(x, 4)

\* Uint256 << shift: the bits shifted past bit 255 are dropped
Uint256Shl(x, shift) ==
    LET word_shift == shift \div 16
        bit_shift == shift % 16
    IN  [i \in 1..UintLimbs |->
            LET k == i - word_shift IN
            ((IF k >= 1 THEN (x[k] * Pow2(bit_shift)) % LimbBase ELSE 0)
             + (IF k - 1 >= 1 THEN x[k - 1] \div Pow2(16 - bit_shift) ELSE 0))
            % LimbBase]

\* one step of bitwise long division: bit i of the dividend a is shifted
\* into the remainder and the divisor b subtracted where it fits;
\* st = <<remainder (one limb wider), quotient>>
DivBit(a, b, i, st) ==
    LET r2 == LimbsShl1(st[1], LimbsBit(a, i))
        ge == ~LimbsLess(r2, b)
    IN  <<IF ge THEN LimbsSub(r2, b, 0) ELSE r2,
          LimbsShl1(st[2], IF ge THEN 1 ELSE 0)>>

\* the steps for the bits hi down to lo of the dividend, the upper half of
\* the range first
RECURSIVE DivBits(_, _, _, _, _)
DivBits(a, b, hi, lo, st) ==
    IF hi = lo THEN DivBit(a, b, hi, st)
    ELSE LET mid == (hi + lo + 1) \div 2
             upper == DivBits(a, b, hi, mid, st)
         IN  \* (the width test has the upper half computed first)
             IF Len(upper[2]) # UintLimbs THEN upper
             ELSE DivBits(a, b, mid - 1, lo, upper)

\* Uint256 / Uint256: truncating; asserts the divisor is not zero
Uint256Div(a, b) ==
    IF LimbsZero(b) THEN Panic("assertion failed: your_bits != 0")
    ELSE Ok(DivBits(LimbsResize(a, UintLimbs), LimbsResize(b, UintLimbs + 1),
                    16 * UintLimbs - 1, 0,
                    <<LimbsResize(<<>>, UintLimbs + 1), Uint256Zero>>)[2])

\* 256^k for the mantissa shift of a small exponent
Pow256(k) == CASE k = 0 -> 1 [] k = 1 -> 256 [] k = 2 -> 65536 [] k = 3 -> 16777216

\* bits is a u32: <<low limb, high limb>>
bits2target(bits) ==
    LET unshifted_expt == bits[2] \div 256
        mant24 == (bits[2] % 256) * LimbBase + bits[1]
        mant == IF unshifted_expt <= 3
                THEN mant24 \div Pow256(3 - unshifted_expt)
                ELSE mant24
        expt == IF unshifted_expt <= 3 THEN 0 ELSE 8 * (unshifted_expt - 3)
    IN  IF mant > 8388607
        THEN Uint256Zero
        ELSE Uint256Shl(from_u64(U64(mant)), expt)

\* 0xFFFF << 208
unit_target == Uint256Shl(from_u64(U64(65535)), 208)

target2diff(target) ==
    LET q == Uint256Div(unit_target, target) IN
    IF q.tag = "ok" THEN Ok(low_u64(q.val)) ELSE q

\* a variant of diff2target without the case for difficulty 0
diff2target_NoZeroCase(diff) == Uint256Div(unit_target, from_u64(diff))

diff2target(diff) ==
    IF LimbsZero(diff) THEN Ok(Uint256Max)
    ELSE Uint256Div(unit_target, from_u64(diff))

\* Uint256 / Uint256 with the remainder: <<remainder, quotient>>, the divisor
\* not zero
Uint256DivRem(a, b) ==
    LET st == DivBits(LimbsResize(a, UintLimbs), LimbsResize(b, UintLimbs + 1),
                      16 * UintLimbs - 1, 0,
                      <<LimbsResize(<<>>, UintLimbs + 1), Uint256Zero>>)
    IN  <<LimbsResize(st[1], UintLimbs), st[2]>>

\* Uint256 * k for a small k (k < 16), modulo 2^256
Uint256MulSmall(a, k) ==
    LET a2 == LimbsShl1(a, 0)
        a4 == LimbsShl1(a2, 0)
        a8 == LimbsShl1(a4, 0)
        Part(x, bit) == IF (k \div bit) % 2 = 1 THEN x ELSE Uint256Zero
    IN  LimbsAdd(LimbsAdd(Part(a, 1), Part(a2, 2), 0),
                 LimbsAdd(Part(a4, 4), Part(a8, 8), 0), 0)

\* x.low_u64() % 10 (65536 = 6 modulo 10, and so is every power of it)
LowU64Mod10(x) ==
    ((x[1] % 10) + 6 * ((x[2] % 10) + (x[3] % 10) + (x[4] % 10))) % 10

\* one pass of the `for _i in 0..decimal_len` loop of uint256_div;
\* st = <<divided - divisor * divided_result, decimals after the first>>
DecimalDigit(divisor, st) ==
    LET times10 == Uint256MulSmall(st[1], 10) IN
    \* (the width tests have each value computed before the next uses it)
    IF Len(times10) # UintLimbs THEN st
    ELSE LET quotient == Uint256DivRem(times10, divisor)[2] IN
         IF Len(quotient) # UintLimbs THEN st
         ELSE LET divided_result == LowU64Mod10(quotient) IN
              <<LimbsSub(times10, Uint256MulSmall(divisor, divided_result), 0),
                Append(st[2], divided_result)>>

\* n passes of the loop (n >= 1), the first half of them first
RECURSIVE DecimalDigits(_, _, _)
DecimalDigits(divisor, n, st) ==
    IF n = 1 THEN DecimalDigit(divisor, st)
    ELSE LET half == DecimalDigits(divisor, n \div 2, st) IN
         \* (the width test has the first half computed first)
         IF Len(half[1]) # UintLimbs THEN half
         ELSE DecimalDigits(divisor, n - (n \div 2), half)

\* uint256_div: the quotient with decimal_len decimal digits. The f64 it
\* returns is kept as the numbers it is summed from: the integer part (u64)
\* and the digits after the point.
uint256_div(divided, divisor, decimal_len) ==
    IF LimbsZero(divisor) THEN Err("zero divisor")
    ELSE IF decimal_len > 10 THEN Err("decimal > 10")
    ELSE LET rd == Uint256DivRem(divided, divisor)
             d == rd[2]
         IN  IF \E i \in 5..UintLimbs : d[i] # 0 THEN Err("div result too big")
             \* divisor * d cannot pass divided, d being the quotient: what
             \* `divided - divisor * d` leaves is the remainder
             ELSE Ok([int |-> low_u64(d),
                      frac |-> IF decimal_len = 0 THEN <<>>
                               ELSE DecimalDigits(divisor, decimal_len,
                                                  <<rd[1], <<>>>>)[2]])

target2diff_f64(target) == uint256_div(unit_target, target, 10)

\* ------------------------------------------------------------------------
\* job.rs: nonce packing
\* ------------------------------------------------------------------------

\* a variant of nonce with the miner id ahead of the job id
nonce_MinerFirst(miner_index, job_id) ==
    HexEncode(BEBytes(miner_index) \o BEBytes(job_id))

nonce(miner_index, job_id) == HexEncode(BEBytes(job_id) \o BEBytes(miner_index))

job_id_from_nonce(nonce_hex) ==
    LET d == HexDecode(nonce_hex) IN
    IF d.tag # "ok" THEN Panic("called unwrap on an Err value")
    ELSE IF LimbsLess(ByteLen(d.val), U64(4)) THEN Panic("range end index 4 out of range")
    ELSE Ok(BERead(SubSeq(d.val, 1, 4)))

\* JobInfo.external_txs, a Vec<String>, is a sequence of entries: <<"tx", text>>
\* is one string, <<"txs", <<id, count>>>> stands for count (a u64, not 0)
\* strings that are not looked into.

\* external_txs.len() as u64
RECURSIVE TxCount(_)
TxCount(external_txs) ==
    IF external_txs = <<>> THEN U64(0)
    ELSE IF Len(external_txs) = 1
    THEN (IF external_txs[1][1] = "tx" THEN U64(1) ELSE external_txs[1][2][2])
    ELSE LET h == Len(external_txs) \div 2 IN
         LimbsAdd(TxCount(SubSeq(external_txs, 1, h)),
                  TxCount(SubSeq(external_txs, h + 1, Len(external_txs))), 0)

\* external_txs.join(","); <<"j", run>> is the text of a run's strings joined
\* by commas
RECURSIVE JoinComma(_)
JoinComma(external_txs) ==
    IF external_txs = <<>> THEN <<>>
    ELSE LET first == IF external_txs[1][1] = "tx" THEN external_txs[1][2]
                      ELSE <<<<"j", external_txs[1][2]>>>>
         IN  IF Len(external_txs) = 1 THEN first
             ELSE first \o <<Ch(",")>> \o JoinComma(Tail(external_txs))

\* JobInfo::build_block
build_block(self, nonce_text, mix_hash) ==
    LET op_data == var_push_num(<<>>, LimbsAdd(TxCount(self.external_txs), U64(1), 0))
    IN  HexEncode(self.header) \o nonce_text \o mix_hash \o HexEncode(op_data)
        \o HexEncode(self.coinbase_tx) \o JoinComma(self.external_txs)

\* ------------------------------------------------------------------------
\* block_template.rs: BlockTemplate
\* ------------------------------------------------------------------------

KAWPOW_EPOCH_LENGTH == 7500

\* the freshness window of is_new_template, in seconds
FRESH_SECS == 60

\* a u32 compared with / divided by a small constant d (d <= 32767)
U32LessSmall(h, d) == h[2] = 0 /\ h[1] < d
U32DivSmall(h, d) ==
    (h[2] \div d) * LimbBase + ((h[2] % d) * LimbBase + h[1]) \div d

\* now(): seconds since the epoch `as u32`; unwrap panics before the epoch
now(clock) ==
    IF clock < 0 THEN Panic("called unwrap on an Err value") ELSE Ok(U32(clock))

\* a variant of seed_hash that hashes once more than the epoch number
seed_hash_ExtraPass(height) ==
    IF U32LessSmall(height, KAWPOW_EPOCH_LENGTH) THEN Zeros(32)
    ELSE <<HashChunk(<<"keccak256", U32DivSmall(height, KAWPOW_EPOCH_LENGTH) + 1,
                       Zeros(32)>>)>>

\* BlockTemplate::seed_hash: Keccak-256 applied height / 7500 times to 32 zero
\* bytes; the n-fold application stays symbolic
seed_hash(height) ==
    IF U32LessSmall(height, KAWPOW_EPOCH_LENGTH) THEN Zeros(32)
    ELSE <<HashChunk(<<"keccak256", U32DivSmall(height, KAWPOW_EPOCH_LENGTH), Zeros(32)>>)>>

\* BlockTemplate::coinbase_txin
coinbase_txin(script) ==
    Zeros(32) \o Fill(4, 255) \o <<B(LowByte(ByteLen(script)))>> \o script
    \o Fill(4, 255)

\* the two outputs shared by both coinbase serializations
CoinbaseOutputs(inner, coinbasevalue, vout, witness_vout) ==
    LET r1 == op_push_slice(push_u64(push_u8(inner, 2), coinbasevalue), vout) IN
    IF r1.tag # "ok" THEN r1
    ELSE op_push_slice(push_slice(r1.val, Zeros(8)), witness_vout)

\* the closure mapped over template_info.transactions
TxidBytes(txid) ==
    LET h == HexDecode(txid) IN
    IF h.tag # "ok" THEN Panic("invalid txid")
    ELSE IF ByteLen(h.val) # U64(32) THEN Panic("called unwrap on an Err value")
    ELSE Ok(Reverse(h.val))

RECURSIVE CollectTxids(_)
CollectTxids(txs) ==
    IF txs = <<>> THEN Ok(<<>>)
    ELSE LET h == TxidBytes(Head(txs).txid) IN
         IF h.tag # "ok" THEN h
         ELSE LET r == CollectTxids(Tail(txs)) IN
              IF r.tag # "ok" THEN r ELSE Ok(<<h.val>> \o r.val)

\* the header and the template record, once every input is decoded
NewHeader(ti, pool_addr, pool_info, seed, coinbase_tx, coinbase_txid, merkle, ts) ==
    LET prev == HexDecode(ti.previousblockhash) IN
    IF prev.tag # "ok" THEN Panic("called unwrap on an Err value")
    ELSE LET bits == HexDecode(ti.bits) IN
    IF bits.tag # "ok" THEN Panic("called unwrap on an Err value")
    ELSE LET prev_hash == Reverse(prev.val)
             bits_hex == Reverse(bits.val)
             header == push_u32(push_slice(push_u32(push_slice(push_slice(
                           push_u32(<<>>, ti.version), prev_hash), merkle), ts),
                           bits_hex), ti.height)
         IN  Ok([pool_addr |-> pool_addr,
                 pool_info |-> pool_info,
                 coinbase_tx |-> coinbase_tx,
                 witness_hex |-> ti.default_witness_commitment,
                 coinbase_txid |-> coinbase_txid,
                 seed_hash |-> seed,
                 header |-> header,
                 header_hash |-> Reverse(dsha256(header)),
                 prev_hash |-> prev_hash,
                 timestamp |-> ts,
                 external_txs |-> [i \in DOMAIN ti.transactions |-> ti.transactions[i].data],
                 target_hex |-> ti.target,
                 bits_hex |-> ti.bits,
                 version |-> ti.version,
                 height |-> ti.height])

\* BlockTemplate::new, the wall clock reading `clock` taken at line 144
BlockTemplateNew(ti, pool_addr, pool_info, clock) ==
    LET seed == seed_hash(ti.height)
        script == coinbase_script(ti.height, pool_info)
    IN
    IF script.tag # "ok" THEN script
    ELSE LET txin == coinbase_txin(script.val)
             vout == vout_to_miner(pool_addr)
         IN
    IF vout.tag # "ok" THEN vout
    ELSE LET witness_vout == HexDecode(ti.default_witness_commitment) IN
    IF witness_vout.tag # "ok" THEN witness_vout
    ELSE LET coinbase_tx ==
                 CoinbaseOutputs(
                     push_slice(push_slice(push_u32(<<>>, U32(1)), Bytes(<<0, 1, 1>>)), txin),
                     ti.coinbasevalue, vout.val, witness_vout.val)
         IN
    IF coinbase_tx.tag # "ok" THEN coinbase_tx
    ELSE LET coinbase_no_wit ==
                 CoinbaseOutputs(
                     push_slice(push_u8(push_u32(<<>>, U32(1)), 1), txin),
                     ti.coinbasevalue, vout.val, witness_vout.val)
             txids2 == CollectTxids(ti.transactions)
         IN
    IF txids2.tag # "ok" THEN txids2
    ELSE LET tx_full == push_slice(push_slice(push_slice(coinbase_tx.val,
                            Bytes(<<1, 32>>)), Zeros(32)), Zeros(4))
             txid_pre == push_slice(coinbase_no_wit.val, Zeros(4))
             coinbase_txid == dsha256(txid_pre)
             merkle == merkel_hash(<<coinbase_txid>> \o txids2.val)
             ts == now(clock)
         IN
    IF merkle.tag # "ok" THEN merkle
    ELSE IF ts.tag # "ok" THEN ts
    ELSE NewHeader(ti, pool_addr, pool_info, seed, tx_full, coinbase_txid,
                   merkle.val, ts.val)

\* BlockTemplate::is_new_template with the clock reading `clock`;
\* overflow_checks is the build's setting for `now() - self.timestamp`
\* (on: an overflowing subtraction panics; off: it wraps modulo 2^32)
is_new_template(self, ti, clock, overflow_checks) ==
    IF self.height # ti.height THEN Ok(TRUE)
    ELSE LET n == now(clock) IN
    IF n.tag # "ok" THEN n
    ELSE IF overflow_checks /\ LimbsLess(n.val, self.timestamp)
    THEN Panic("attempt to subtract with overflow")
    ELSE IF LimbsLess(U32(FRESH_SECS), LimbsSub(n.val, self.timestamp, 0))
    THEN Ok(TRUE)
    ELSE Ok(self.witness_hex # ti.default_witness_commitment)

\* ------------------------------------------------------------------------
\* Inputs of the template life cycle
\* ------------------------------------------------------------------------

\* n hex digits, the digit at position i being (i + k) mod 16
HexText(n, k) == [i \in 1..n |-> Ch(HexLower[((i + k) % 16) + 1])]

\* RNs3ne88DoNEnXFTqUrj6zrYejeQpcj4jk (address.rs test_address): version 60
\* and the 20-byte hash
PoolAddrString ==
    [alphabet_ok |-> TRUE,
     checksum_ok |-> TRUE,
     payload |-> Bytes(<<60, 149, 0, 219, 97, 53, 71, 189, 57, 112, 252, 206,
                         194, 167, 169, 9, 185, 46, 117, 0, 89>>)]
PoolAddr == from_str(PoolAddrString).val

\* the length of the long pool tag
LongTagLen == 250

\* pool tags: a short one, and one that makes the input script longer than 255 bytes
PoolTags ==
    [short |-> Str(<<"r", "v", "n">>),
     long |-> <<<<"u", Blob("tag", U64(LongTagLen))>>>>]

Tx(k) == [data |-> HexText(8, k), txid |-> HexText(64, k)]

\* the template of block_template.rs test_block_template, shortened
BaseInfo ==
    [version |-> <<0, 12288>>,
     previousblockhash |-> HexText(64, 3),
     transactions |-> <<Tx(1), Tx(2)>>,
     coinbasevalue |-> <<15373, 13647, 58, 0>>,
     target |-> HexText(64, 0),
     bits |-> Str(<<"1", "a", "5", "a", "b", "5", "0", "d">>),
     height |-> U32(2491604),
     default_witness_commitment |-> Str(<<"6", "a", "2", "4", "a", "a", "2", "1">>)]

BadHex == Str(<<"z", "z">>)

TemplateInfos ==
    [base |-> BaseInfo,
     next_height |-> [BaseInfo EXCEPT !.height = U32(2491605)],
     new_witness |-> [BaseInfo EXCEPT !.default_witness_commitment =
                         Str(<<"6", "a", "2", "4", "a", "a", "2", "2">>)],
     no_txs |-> [BaseInfo EXCEPT !.transactions = <<>>],
     short_prev |-> [BaseInfo EXCEPT !.previousblockhash = HexText(62, 3)],
     short_bits |-> [BaseInfo EXCEPT !.bits = Str(<<"1", "a">>)],
     bad_txid |-> [BaseInfo EXCEPT !.transactions = <<Tx(1), [Tx(2) EXCEPT !.txid = BadHex]>>],
     bad_prev |-> [BaseInfo EXCEPT !.previousblockhash = BadHex],
     bad_bits |-> [BaseInfo EXCEPT !.bits = BadHex],
     bad_witness |-> [BaseInfo EXCEPT !.default_witness_commitment = BadHex]]

InfoNames == DOMAIN TemplateInfos
TagNames == DOMAIN PoolTags

\* wall-clock readings, seconds since the epoch (-1: a clock set before it)
ClockReadings == {-1, 0, 60, 61, 122}

\* ------------------------------------------------------------------------
\* State
\* ------------------------------------------------------------------------
VARIABLES
    clock,   \* the wall clock
    held,    \* the template the caller holds: <<>> or <<BlockTemplate>>
    last     \* the last call: [op, args, ret]

vars == <<clock, held, last>>

\* a panic ends the run: nothing is called after it
Crashed == last.ret.tag = "panic"

Init ==
    /\ clock = 0
    /\ held = <<>>
    /\ last = [op |-> "none", args |-> <<>>, ret |-> Ok(<<>>)]

\* the wall clock is set or advances (SystemTime is not monotonic)
Tick ==
    \E c \in ClockReadings :
        /\ ~Crashed
        /\ c # clock
        /\ clock' = c
        /\ last' = [op |-> "tick", args |-> <<>>, ret |-> Ok(<<>>)]
        /\ UNCHANGED held

\* a caller that holds no template builds one and, when that succeeds, holds it
New ==
    \E info \in InfoNames, tag \in TagNames :
        LET r == BlockTemplateNew(TemplateInfos[info], PoolAddr, PoolTags[tag], clock) IN
        /\ ~Crashed
        /\ held = <<>>
        /\ held' = IF r.tag = "ok" THEN <<r.val>> ELSE held
        /\ last' = [op |-> "new", args |-> [info |-> info, tag |-> tag],
                    ret |-> IF r.tag = "ok" THEN Ok(<<>>) ELSE r]
        /\ UNCHANGED clock

\* the caller asks whether the held template must be replaced
IsNewTemplate ==
    \E info \in InfoNames, overflow_checks \in BOOLEAN :
        /\ ~Crashed
        /\ held # <<>>
        /\ last' = [op |-> "is_new_template",
                    args |-> [info |-> info, overflow_checks |-> overflow_checks],
                    ret |-> is_new_template(held[1], TemplateInfos[info], clock,
                                            overflow_checks)]
        /\ UNCHANGED <<clock, held>>

\* the caller drops a template the freshness check told it to replace
Drop ==
    /\ held # <<>>
    /\ last.op = "is_new_template"
    /\ last.ret = Ok(TRUE)
    /\ held' = <<>>
    /\ last' = [op |-> "drop", args |-> <<>>, ret |-> Ok(<<>>)]
    /\ UNCHANGED clock

Next == Tick \/ New \/ IsNewTemplate \/ Drop

Spec == Init /\ [][Next]_vars

\* ------------------------------------------------------------------------
\* The conversions, one call per behaviour: Init draws the call, the action
\* of its name applies the function; a result can be fed to the inverse
\* ------------------------------------------------------------------------

Pending == [tag |-> "pending"]

Call(op, args) == [op |-> op, args |-> args, ret |-> Pending, from |-> <<>>]

\* exponent bytes and 24-bit mantissas of the compact bits drawn
BitsExponents == {0, 1, 2, 3, 4, 5, 29, 30, 32, 33, 34, 35, 255}
BitsMantissas == {0, 1, 128, 32768, 37113, 1193046, 8388607, 8388608, 8388609, 16777215}

BitsOf(e, m) == <<m % LimbBase, e * 256 + m \div LimbBase>>

\* difficulties (u64) and targets drawn
DiffSamples ==
    {U64(0), U64(1), U64(2), U64(3), U64(65535), U64(65536),
     <<0, 0, 1, 0>>, <<65535, 65535, 65535, 65535>>}
TargetSamples ==
    {Uint256Max, unit_target, from_u64(U64(1)), from_u64(U64(7)),
     Uint256Shl(from_u64(U64(37113)), 216), Uint256Zero,
     Uint256Shl(from_u64(U64(7)), 192)}

\* miner and job identifiers drawn
MinerSamples == {U64(0), U64(1), <<4660, 22136, 39612, 57072>>, <<65535, 65535, 65535, 65535>>}
JobSamples == {U32(0), U32(1), U32(255), U32(256), <<65534, 43981>>, <<0, 32768>>, <<65535, 65535>>}

\* nonce texts a miner may send back that nonce() never produced
ForeignNonces ==
    {<<>>, Str(<<"0", "0", "A", "b", "c", "D">>), Str(<<"0", "0", "0", "0", "0", "1", "F", "f">>),
     Str(<<"0", "0", "0", "0", "0", "1", "F">>), Str(<<"z", "z", "0", "0", "0", "0", "0", "0">>)}

\* the longest list of transaction ids drawn
MaxTxids == 5
TxidSample(k) == Fill(32, k)
TxidList(n) == [i \in 1..n |-> TxidSample(i)]

\* the longest literal data pushed; longer data is an opaque blob
MaxLiteralLen == 3
PushLengths ==
    {U64(75), U64(76), U64(255), U64(256), U64(65535), U64(65536),
     <<65535, 65535, 0, 0>>, <<0, 0, 1, 0>>, <<5, 0, 1, 0>>, <<0, 0, 0, 1>>}
PushData ==
    {[i \in 1..n |-> B(i)] : n \in 0..MaxLiteralLen}
    \cup {<<Blob("data", n)>> : n \in PushLengths}
    \cup {<<B(9), Blob("data", n)>> : n \in PushLengths}
PushInners == {<<>>, Bytes(<<1, 32>>)}

\* jobs drawn: the numbers of external transactions around the switches of
\* the variable-length integer, the larger ones as runs
JobHeader == Bytes(<<0, 0, 0, 48>>) \o <<Blob("header", U64(76))>>
JobCoinbase == Bytes(<<1, 0, 0, 0, 0, 1, 1>>) \o <<Blob("coinbase", U64(168))>>
TxText(k) == <<"tx", HexText(6, k)>>
TxRun(count) == <<"txs", <<"mempool", count>>>>
ExternalTxSamples ==
    {<<>>, <<TxText(1)>>, <<TxText(1), TxText(2), TxText(3)>>,
     <<TxRun(U64(251))>>, <<TxText(1), TxRun(U64(251))>>,
     <<TxRun(U64(251)), TxText(1), TxText(2)>>,
     <<TxRun(U64(65534))>>, <<TxRun(U64(65534)), TxText(4)>>,
     <<TxRun(<<65534, 65535, 0, 0>>)>>, <<TxText(5), TxRun(<<65534, 65535, 0, 0>>)>>,
     <<TxRun(<<513, 1027, 1541, 2055>>)>>}
JobInfoOf(external_txs) ==
    [header |-> JobHeader, coinbase_tx |-> JobCoinbase, external_txs |-> external_txs]
SubmittedNonces == {Str(<<"0", "0", "a", "1">>), <<>>}
SubmittedMixHashes == {Str(<<"f", "e", "0", "1", "2", "3">>)}

\* heights and pool tags drawn for coinbase_script: heights with and without
\* zero bytes, tags up to and past the longest push
HeightSamples ==
    {U32(0), U32(1), U32(255), U32(256), U32(257), U32(65535), <<0, 1>>,
     <<1236, 38>>, <<256, 256>>, <<65535, 255>>, <<0, 32768>>, <<65535, 65535>>}
TagSamples ==
    {<<>>, Str(<<"r", "v", "n">>), Str(<<"a", " ", "~">>),
     <<<<"u", Blob("tag", U64(75))>>>>, <<<<"u", Blob("tag", U64(76))>>>>,
     <<Ch("r"), <<"u", Blob("tag", <<65534, 65535, 0, 0>>)>>>>,
     <<<<"u", Blob("tag", PushLimit)>>>>,
     <<Ch("r"), <<"u", Blob("tag", <<65535, 65535, 0, 0>>)>>>>}

\* heights drawn for seed_hash: around the first epochs, the test template's
\* height with the ends of its epoch, the largest heights
SeedHeights ==
    {U32(0), U32(1), U32(7499), U32(7500), U32(7501), U32(14999), U32(15000),
     U32(2490000), <<1236, 38>>, U32(2497499), U32(2497500),
     <<0, 32768>>, <<65535, 65535>>}

\* address strings drawn: the test address, a testnet one, payloads of other
\* lengths under a good checksum, another version byte, a bad checksum, a
\* character outside the alphabet
AddressString(payload) ==
    [alphabet_ok |-> TRUE, checksum_ok |-> TRUE, payload |-> payload]
AddressSamples ==
    {PoolAddrString,
     AddressString(<<B(111)>> \o Fill(20, 7)),
     AddressString(<<B(60)>> \o Fill(19, 7)),
     AddressString(<<B(60)>> \o Fill(32, 7)),
     AddressString(<<B(111)>>),
     AddressString(<<B(0)>> \o Fill(20, 7)),
     [alphabet_ok |-> TRUE, checksum_ok |-> FALSE, payload |-> <<B(60)>> \o Fill(20, 7)],
     [alphabet_ok |-> FALSE, checksum_ok |-> FALSE, payload |-> <<>>]}

CodecCalls ==
    {Call("bits2target", [bits |-> BitsOf(e, m)]) : e \in BitsExponents, m \in BitsMantissas}
    \cup {Call("diff2target", [diff |-> d]) : d \in DiffSamples}
    \cup {Call("target2diff", [target |-> t]) : t \in TargetSamples}
    \cup {Call("nonce", [miner_index |-> mi, job_id |-> j]) :
             mi \in MinerSamples, j \in JobSamples}
    \cup {Call("job_id_from_nonce", [nonce |-> n]) : n \in ForeignNonces}
    \cup {Call("merkel_hash", [txids |-> TxidList(n)]) : n \in 0..MaxTxids}
    \cup {Call("from_str", [address |-> a]) : a \in AddressSamples}
    \cup {Call("target2diff_f64", [target |-> t]) : t \in TargetSamples}
    \cup {Call("build_block", [job |-> JobInfoOf(x), nonce_text |-> n, mix_hash |-> m]) :
             x \in ExternalTxSamples, n \in SubmittedNonces, m \in SubmittedMixHashes}
    \cup {Call("coinbase_script", [height |-> h, arbitrary_data |-> t]) :
             h \in HeightSamples, t \in TagSamples}
    \cup {Call("seed_hash", [height |-> h]) : h \in SeedHeights}
    \cup {Call("op_push_slice", [inner |-> i, data |-> d]) :
             i \in PushInners, d \in PushData}

InitCodec ==
    /\ clock = 0
    /\ held = <<>>
    /\ last \in CodecCalls

Calling(op) == last.op = op /\ last.ret = Pending

Bits2Target ==
    /\ Calling("bits2target")
    /\ last' = [last EXCEPT !.ret = Ok(bits2target(last.args.bits))]
    /\ UNCHANGED <<clock, held>>

Diff2Target ==
    /\ Calling("diff2target")
    /\ last' = [last EXCEPT !.ret = diff2target(last.args.diff)]
    /\ UNCHANGED <<clock, held>>

Target2Diff ==
    /\ Calling("target2diff")
    /\ last' = [last EXCEPT !.ret = target2diff(last.args.target)]
    /\ UNCHANGED <<clock, held>>

Nonce ==
    /\ Calling("nonce")
    /\ last' = [last EXCEPT !.ret = Ok(nonce(last.args.miner_index, last.args.job_id))]
    /\ UNCHANGED <<clock, held>>

JobIdFromNonce ==
    /\ Calling("job_id_from_nonce")
    /\ last' = [last EXCEPT !.ret = job_id_from_nonce(last.args.nonce)]
    /\ UNCHANGED <<clock, held>>

MerkelHash ==
    /\ Calling("merkel_hash")
    /\ last' = [last EXCEPT !.ret = merkel_hash(last.args.txids)]
    /\ UNCHANGED <<clock, held>>

OpPushSlice ==
    /\ Calling("op_push_slice")
    /\ last' = [last EXCEPT !.ret = op_push_slice(last.args.inner, last.args.data)]
    /\ UNCHANGED <<clock, held>>

\* the target a difficulty gave is converted back
TargetBack ==
    /\ last.op = "diff2target"
    /\ last.ret.tag = "ok"
    /\ last' = [op |-> "target2diff", args |-> [target |-> last.ret.val], ret |-> Pending,
                from |-> <<last>>]
    /\ UNCHANGED <<clock, held>>

\* the miner sends the nonce it was given back
NonceBack ==
    /\ last.op = "nonce"
    /\ last.ret.tag = "ok"
    /\ last' = [op |-> "job_id_from_nonce", args |-> [nonce |-> last.ret.val], ret |-> Pending,
                from |-> <<last>>]
    /\ UNCHANGED <<clock, held>>

FromStr ==
    /\ Calling("from_str")
    /\ last' = [last EXCEPT !.ret = from_str(last.args.address)]
    /\ UNCHANGED <<clock, held>>

\* the payout script of an address from_str returned
VoutToMiner ==
    /\ last.op = "from_str"
    /\ last.ret.tag = "ok"
    /\ last' = [op |-> "vout_to_miner", args |-> [self |-> last.ret.val],
                ret |-> vout_to_miner(last.ret.val), from |-> <<last>>]
    /\ UNCHANGED <<clock, held>>

Target2DiffF64 ==
    /\ Calling("target2diff_f64")
    /\ last' = [last EXCEPT !.ret = target2diff_f64(last.args.target)]
    /\ UNCHANGED <<clock, held>>

BuildBlock ==
    /\ Calling("build_block")
    /\ last' = [last EXCEPT !.ret = Ok(build_block(last.args.job, last.args.nonce_text,
                                                    last.args.mix_hash))]
    /\ UNCHANGED <<clock, held>>

CoinbaseScript ==
    /\ Calling("coinbase_script")
    /\ last' = [last EXCEPT !.ret = coinbase_script(last.args.height,
                                                    last.args.arbitrary_data)]
    /\ UNCHANGED <<clock, held>>

SeedHash ==
    /\ Calling("seed_hash")
    /\ last' = [last EXCEPT !.ret = Ok(seed_hash(last.args.height))]
    /\ UNCHANGED <<clock, held>>

NextCodec ==
    \/ Bits2Target \/ Diff2Target \/ Target2Diff \/ TargetBack
    \/ Nonce \/ JobIdFromNonce \/ NonceBack
    \/ MerkelHash \/ OpPushSlice
    \/ FromStr \/ VoutToMiner
    \/ Target2DiffF64 \/ BuildBlock \/ CoinbaseScript \/ SeedHash

SpecCodec == InitCodec /\ [][NextCodec]_vars

\* ------------------------------------------------------------------------
\* Properties
\* ------------------------------------------------------------------------

Returned(op) == last.op = op /\ last.ret # Pending

\* a u32 of the model's clock range as a number
U32Value(x) == x[2] * LimbBase + x[1]

\* C1: the header of every template BlockTemplate::new returns is exactly
\* 80 bytes.
C1_HeaderIs80Bytes ==
    held # <<>> => ByteLen(held[1].header) = U64(80)

\* C2: is_new_template returns true exactly when the offered height differs
\* from the held one, or the wall clock is more than 60 seconds past the held
\* capture timestamp, or the offered witness commitment differs; when none of
\* these holds it returns false.
C2_FreshnessIff ==
    (Returned("is_new_template") /\ last.ret.tag = "ok") =>
        last.ret.val =
            (\/ held[1].height # TemplateInfos[last.args.info].height
             \/ clock - U32Value(held[1].timestamp) > FRESH_SECS
             \/ held[1].witness_hex #
                    TemplateInfos[last.args.info].default_witness_commitment)

\* C3: is_new_template always completes with a boolean and never aborts,
\* for every held template and every wall-clock reading (here: every reading
\* at or after the epoch), a reading earlier than the held capture timestamp
\* included.
C3_FreshnessNeverAborts ==
    (Returned("is_new_template") /\ clock >= 0) =>
        (last.ret.tag = "ok" /\ last.ret.val \in BOOLEAN)

\* the hex inputs BlockTemplate::new decodes
HexInputs(ti) ==
    {ti.previousblockhash, ti.bits, ti.default_witness_commitment}
    \cup {ti.transactions[i].txid : i \in DOMAIN ti.transactions}

\* C4: a malformed hex input given to BlockTemplate::new comes back to the
\* caller as a decode failure value; the call does not abort on it.
C4_MalformedHexIsReturned ==
    (/\ Returned("new")
     /\ clock >= 0
     /\ \E t \in HexInputs(TemplateInfos[last.args.info]) : HexDecode(t).tag = "err")
    => last.ret.tag = "err"

\* byte j (0 = least significant) of the target the compact encoding with
\* exponent e and mantissa m stands for
CompactByte(e, m, j) ==
    LET k == j - (e - 3) IN
    IF k < 0 \/ k > 2 THEN 0 ELSE (m \div Pow256(k)) % 256

\* the value the compact encoding stands for, the sign bit read on the
\* unshifted mantissa
CompactTarget(e, m) ==
    IF m > 8388607 THEN Uint256Zero
    ELSE [i \in 1..UintLimbs |->
             CompactByte(e, m, 2 * i - 2) + 256 * CompactByte(e, m, 2 * i - 1)]

\* C5: bits2target returns 0 when the mantissa m exceeds 0x7FFFFF, else
\* m >> 8*(3-e) for e <= 3, else m << 8*(e-3) as a 256-bit value; the sign
\* bit is tested on the unshifted mantissa for every exponent.
C5_Bits2TargetOfUnshiftedMantissa ==
    Returned("bits2target") =>
        last.ret.val =
            CompactTarget(last.args.bits[2] \div 256,
                          (last.args.bits[2] % 256) * LimbBase + last.args.bits[1])

AllOnes(x) == Len(x) = UintLimbs /\ \A i \in 1..UintLimbs : x[i] = LimbBase - 1

\* the target2diff call made on the target diff2target(0) returned
BackFromZeroDiff ==
    /\ last.op = "target2diff"
    /\ last.from # <<>>
    /\ LimbsZero(last.from[1].args.diff)

\* C6 as stated: diff2target(0) is the all-ones value and target2diff of
\* that value is difficulty 1.
C6_MaxTargetGivesDifficultyOne ==
    /\ (Returned("diff2target") /\ LimbsZero(last.args.diff))
           => (last.ret.tag = "ok" /\ AllOnes(last.ret.val))
    /\ (BackFromZeroDiff /\ last.ret # Pending) => last.ret = Ok(U64(1))

\* C6 as amended: diff2target(0) is the all-ones value and target2diff of
\* that value is difficulty 0 (the unit target is below it, and the division
\* truncates).
C6_MaxTargetGivesDifficultyZero ==
    /\ (Returned("diff2target") /\ LimbsZero(last.args.diff))
           => (last.ret.tag = "ok" /\ AllOnes(last.ret.val))
    /\ BackFromZeroDiff => AllOnes(last.args.target)
    /\ (BackFromZeroDiff /\ last.ret # Pending) => last.ret = Ok(U64(0))

C6_Witness ==
    BackFromZeroDiff /\ AllOnes(last.args.target) /\ last.ret.tag = "ok"

\* byte k (1 = first) of the big-endian layout of a limb sequence
BEByteOf(x, k) ==
    LET limb == x[Len(x) - ((k - 1) \div 2)] IN
    IF k % 2 = 1 THEN limb \div 256 ELSE limb % 256

\* C7: the packed nonce is 24 hex characters, 12 bytes: the job id big-endian
\* in the first 4, the miner id big-endian in the last 8; and
\* job_id_from_nonce of the packed nonce is the job id.
C7_NonceRoundTrip ==
    /\ Returned("nonce") =>
           /\ Len(last.ret.val) = 24
           /\ \A i \in 1..24 : last.ret.val[i][1] = "c"
           /\ LET d == HexDecode(last.ret.val) IN
              /\ d.tag = "ok"
              /\ Len(d.val) = 12
              /\ \A k \in 1..4 : d.val[k] = B(BEByteOf(last.args.job_id, k))
              /\ \A k \in 1..8 : d.val[4 + k] = B(BEByteOf(last.args.miner_index, k))
    /\ (Returned("job_id_from_nonce") /\ last.from # <<>>) =>
           last.ret = Ok(last.from[1].args.job_id)

C7_Witness ==
    /\ Returned("job_id_from_nonce")
    /\ last.from # <<>>
    /\ last.from[1].args.job_id[2] >= 32768
    /\ last.from[1].args.miner_index[4] >= 32768
    /\ last.ret.tag = "ok"

\* the next Merkle level by position: element i hashes elements 2i-1 and 2i
\* of the level, the last element standing in for a missing 2i
PairedLevel(level) ==
    [i \in 1..((Len(level) + 1) \div 2) |->
        dsha256(level[2 * i - 1]
                \o (IF 2 * i <= Len(level) THEN level[2 * i] ELSE level[Len(level)]))]

RECURSIVE PairedRoot(_)
PairedRoot(level) ==
    IF Len(level) = 1 THEN level[1] ELSE PairedRoot(PairedLevel(level))

\* C8: merkel_hash is the double hash of nothing for an empty list, the
\* element for a one-element list, and otherwise the root of the levels
\* built by duplicating the last element of an odd level and hashing the
\* pairs in order; it finishes for every length without popping a missing
\* element.
C8_MerkleRoot ==
    Returned("merkel_hash") =>
        /\ last.ret.tag = "ok"
        /\ Len(last.args.txids) = 0 => last.ret.val = dsha256(<<>>)
        /\ Len(last.args.txids) = 1 => last.ret.val = last.args.txids[1]
        /\ Len(last.args.txids) > 1 => last.ret.val = PairedRoot(last.args.txids)

C8_Witness ==
    Returned("merkel_hash") /\ Len(last.args.txids) = 5 /\ last.ret.tag = "ok"

\* the opcode and length bytes the claim gives for a push of n bytes
\* (n a u64 below 0x100000000)
PushPrefix(n) ==
    IF n[2] = 0 /\ n[1] < 76 THEN <<B(n[1])>>
    ELSE IF n[2] = 0 /\ n[1] < 256 THEN <<B(76), B(n[1])>>
    ELSE IF n[2] = 0 THEN <<B(77), B(n[1] % 256), B(n[1] \div 256)>>
    ELSE <<B(78), B(n[1] % 256), B(n[1] \div 256), B(n[2] % 256), B(n[2] \div 256)>>

\* C9: op_push_slice appends the length n as one byte below 0x4c, as 0x4c and
\* one byte below 0x100, as 0x4d and two little-endian bytes below 0x10000,
\* as 0x4e and four little-endian bytes below 0x100000000, then the data
\* unchanged; from 0x100000000 on it aborts and appends nothing.
C9_PushEncoding ==
    Returned("op_push_slice") =>
        LET n == ByteLen(last.args.data) IN
        IF n[3] = 0 /\ n[4] = 0
        THEN last.ret = Ok(last.args.inner \o PushPrefix(n) \o last.args.data)
        ELSE last.ret.tag = "panic"

C9_Witness ==
    /\ Returned("op_push_slice")
    /\ ByteLen(last.args.data) = <<0, 0, 1, 0>>
    /\ last.ret.tag = "panic"

\* C10: in every coinbase transaction BlockTemplate::new emits, the length
\* byte of the coinbase input (byte 44: after the version, the marker and
\* flags and the null outpoint) is the length of the input script that
\* follows; a script too long for the byte is rejected, not emitted.
C10_TxinLengthByteIsScriptLength ==
    held # <<>> =>
        U64(held[1].coinbase_tx[44][2])
            = ByteLen(coinbase_script(held[1].height, held[1].pool_info).val)

\* C11: for every address string from_str accepts, vout_to_miner returns
\* exactly 25 bytes: 0x76 0xa9 0x14, the 20 decoded bytes after the version
\* byte, 0x88 0xac.
C11_PayoutScriptIs25Bytes ==
    Returned("vout_to_miner") =>
        LET decoded == last.args.self.inner.payload IN
        /\ last.ret.tag = "ok"
        /\ Len(last.ret.val) = 25
        /\ last.ret.val = Bytes(<<118, 169, 20>>) \o SubSeq(decoded, 2, 21)
                              \o Bytes(<<136, 172>>)

\* C12: target2diff and target2diff_f64 given the target zero both return a
\* zero-divisor failure to the caller; neither aborts, neither returns a
\* number.
C12_ZeroTargetIsAFailure ==
    (/\ last.op \in {"target2diff", "target2diff_f64"}
     /\ last.ret # Pending
     /\ LimbsZero(last.args.target))
    => last.ret = Err("zero divisor")

\* the Bitcoin variable-length integer of a u64 n, by the ranges of the claim
CompactSize(n) ==
    LET byte(k) == IF k % 2 = 0 THEN B(n[(k \div 2) + 1] % 256)
                   ELSE B(n[(k \div 2) + 1] \div 256)
        high(k) == \E i \in k..4 : n[i] # 0
    IN  IF ~high(2) /\ n[1] < 253 THEN <<byte(0)>>
        ELSE IF ~high(2) THEN <<B(253), byte(0), byte(1)>>
        ELSE IF ~high(3) THEN <<B(254), byte(0), byte(1), byte(2), byte(3)>>
        ELSE <<B(255)>> \o [k \in 1..8 |-> byte(k - 1)]

\* the text of element i of the external transactions, a comma ahead of every
\* element but the first
CommaPart(external_txs, i) ==
    (IF i = 1 THEN <<>> ELSE <<Ch(",")>>)
    \o (IF external_txs[i][1] = "tx" THEN external_txs[i][2]
        ELSE <<<<"j", external_txs[i][2]>>>>)

RECURSIVE CommaParts(_, _)
CommaParts(external_txs, i) ==
    IF i > Len(external_txs) THEN <<>>
    ELSE CommaPart(external_txs, i) \o CommaParts(external_txs, i + 1)

\* C13: build_block returns, in this order and with nothing between: the hex
\* of the header, the nonce text, the mix-hash text, the hex of the
\* variable-length integer of (number of external transactions + 1), the hex
\* of the coinbase transaction, the external transactions in template order
\* joined by commas; the integer takes one byte below 0xfd, 0xfd and 2
\* little-endian bytes up to 0xffff, 0xfe and 4 up to 0xffffffff, 0xff and 8
\* above.
C13_BuildBlockLayout ==
    Returned("build_block") =>
        LET job == last.args.job
            count == LimbsAdd(TxCount(job.external_txs), U64(1), 0)
        IN  last.ret =
                Ok(HexEncode(job.header) \o last.args.nonce_text
                   \o last.args.mix_hash \o HexEncode(CompactSize(count))
                   \o HexEncode(job.coinbase_tx)
                   \o CommaParts(job.external_txs, 1))

\* a block with 252 external transactions: the count 253 is the first that
\* takes the 0xfd form
C13_Witness ==
    /\ Returned("build_block")
    /\ TxCount(last.args.job.external_txs) = U64(252)
    /\ last.ret.tag = "ok"
    /\ Len(last.args.nonce_text) > 0

\* the four little-endian bytes of a u32, as numbers
HeightBytes(h) == <<h[1] % 256, h[1] \div 256, h[2] % 256, h[2] \div 256>>

\* the bytes of a height before its first zero byte (all four when none is)
TrimmedHeight(h) ==
    LET hb == HeightBytes(h)
        zeros == {i \in 1..4 : hb[i] = 0}
        keep == IF zeros = {} THEN 4
                ELSE (CHOOSE i \in zeros : \A j \in zeros : i <= j) - 1
    IN  Bytes(SubSeq(hb, 1, keep))

\* a script push of data shorter than 0x100000000 bytes
ScriptPush(data) == PushPrefix(ByteLen(data)) \o data

\* the script the claim describes
HeightAndTagScript(h, tag) ==
    ScriptPush(TrimmedHeight(h)) \o <<B(0)>> \o ScriptPush(AsBytes(tag))

\* C14 as stated: coinbase_script(height, tag) is a push of the little-endian
\* height bytes before the first zero byte, a 0x00 byte, a push of the tag's
\* bytes, and it returns this for every height and tag without failing.
C14_CoinbaseScriptNeverFails ==
    Returned("coinbase_script") =>
        last.ret = Ok(HeightAndTagScript(last.args.height, last.args.arbitrary_data))

\* C14 as amended: the same script for every height and every tag shorter
\* than 0x100000000 bytes; for a longer tag the call aborts.
C14_CoinbaseScriptUpToPushLimit ==
    Returned("coinbase_script") =>
        IF LimbsLess(ByteLen(AsBytes(last.args.arbitrary_data)), PushLimit)
        THEN last.ret = Ok(HeightAndTagScript(last.args.height,
                                              last.args.arbitrary_data))
        ELSE last.ret.tag = "panic"

\* a height with a zero byte above its low byte, and a tag
C14_Witness ==
    /\ Returned("coinbase_script")
    /\ last.args.height = U32(255)
    /\ Len(last.args.arbitrary_data) = 3
    /\ last.ret.tag = "ok"

\* the bytes of the first push of a script, read as a little-endian u32
FirstPushValue(script) ==
    LET n == script[1][2]
        byte(k) == IF k <= n THEN script[1 + k][2] ELSE 0
    IN  <<byte(1) + 256 * byte(2), byte(3) + 256 * byte(4)>>

\* C16: for every height h, the height bytes coinbase_script pushes first,
\* read as a little-endian unsigned integer, are h, also when the encoding
\* of h has a zero byte below a non-zero byte (256, 65536).
C16_HeightReadsBack ==
    (Returned("coinbase_script") /\ last.ret.tag = "ok") =>
        FirstPushValue(last.ret.val) = last.args.height

\* 7500 * n as a u32, for an epoch number n (n < 2^20)
EpochStart(n) ==
    LimbsAdd(U32(7500 * (n % LimbBase)), <<0, 7500 * (n \div LimbBase)>>, 0)

\* the number of Keccak-256 passes a seed hash went through from 32 zero
\* bytes, -1 when it is not such a value
PassesOf(seed) ==
    IF seed = Zeros(32) THEN 0
    ELSE IF /\ Len(seed) = 1
            /\ seed[1][1] = "h"
            /\ seed[1][2][1] = "keccak256"
            /\ seed[1][2][3] = Zeros(32)
            /\ seed[1][2][2] > 0
    THEN seed[1][2][2] ELSE -1

\* C15: the seed hash is 32 zero bytes when height < 7500, and otherwise
\* Keccak-256 applied to 32 zero bytes exactly floor(height / 7500) times;
\* so the heights of one 7500-block epoch get the same seed hash.
C15_SeedHashOfEpoch ==
    Returned("seed_hash") =>
        LET h == last.args.height
            n == PassesOf(last.ret.val)
        IN  /\ last.ret.tag = "ok"
            /\ n >= 0
            /\ (h[2] = 0 /\ h[1] < 7500) <=> (last.ret.val = Zeros(32))
            \* n = floor(h / 7500): 7500 * n <= h < 7500 * n + 7500
            /\ ~LimbsLess(h, EpochStart(n))
            /\ LimbsLess(LimbsSub(h, EpochStart(n), 0), U32(7500))
            /\ seed_hash(EpochStart(n)) = last.ret.val

\* the height of the test template, in epoch 332
C15_Witness ==
    /\ Returned("seed_hash")
    /\ last.args.height = <<1236, 38>>
    /\ PassesOf(last.ret.val) = 332

====
